---------------------------- MODULE Spec2Model ----------------------------
(***************************************************************************)
(* A model of nova17x/password-generator: the generator and the strength   *)
(* evaluator of password_generator.py, its command-line main(), and the    *)
(* Tkinter form of password_generator_gui.py.                              *)
(*                                                                         *)
(* Characters are Unicode code points, strings are sequences of them.      *)
(* Python exceptions are records: an operator that can raise returns       *)
(* [raised, value, ...] and its caller tests raised first, as the          *)
(* interpreter unwinds.                                                    *)
(***************************************************************************)
EXTENDS Integers, Sequences, FiniteSets, TLC

(***************************************************************************)
(* Bounds of the exploration.                                              *)
(***************************************************************************)
\* generate_password is called with lengths -1 .. MaxGenLength
MaxGenLength == 5
\* evaluate_password_strength is applied to passwords of up to MaxLen characters
MaxLen == 26
\* ... whose first MaxCore characters are free, the rest repeating the last one
MaxCore == 4
\* the command line asks for up to MaxCount passwords of up to MaxCliLength characters
MaxCount == 3
MaxCliLength == 6
\* copy handlers suspended inside root.update() at one time
MaxNest == 2
\* pending root.after callbacks at one time
MaxTimers == 2

(***************************************************************************)
(* The standard library's character constants (module string).             *)
(***************************************************************************)
Range(lo, hi) == [i \in 1..(hi - lo + 1) |-> lo + i - 1]

ascii_uppercase == Range(65, 90)      \* "A".."Z"
ascii_lowercase == Range(97, 122)     \* "a".."z"
digits == Range(48, 57)               \* "0".."9"
\* !"#$%&'()*+,-./  :;<=>?@  [\]^_`  {|}~
punctuation == Range(33, 47) \o Range(58, 64) \o Range(91, 96) \o Range(123, 126)

Chars(s) == {s[i] : i \in 1..Len(s)}
punctuation_chars == Chars(punctuation)

\* str.isupper / islower / isdigit of one character: the ASCII ranges, and of
\* the characters beyond ASCII the ones explored here (201 "E acute" is
\* uppercase, 233 "e acute" lowercase, 178 "superscript two" a digit; 32 " "
\* and 12354 "hiragana a" are none of them).
isupper(c) == c \in 65..90 \/ c = 201
islower(c) == c \in 97..122 \/ c = 233
isdigit(c) == c \in 48..57 \/ c = 178

(***************************************************************************)
(* Exceptions and the messages of the two ValueErrors.                     *)
(***************************************************************************)
MsgNoClass == "ValueError: select at least one character class"
MsgLength == "ValueError: password length must be at least 1"
NoError == "no exception"

Return(v) == [raised |-> NoError, value |-> v]
Raise(msg) == [raised |-> msg, value |-> <<>>]

(***************************************************************************)
(* The random source.  secrets.choice(seq) returns seq[k] for a k the      *)
(* operating system's entropy picks in 0..len(seq)-1.  An entropy stream   *)
(* here is the sequence seed, seed+stride, seed+2*stride, ...; its i-th    *)
(* value reduced modulo len(seq) is the i-th k.                            *)
(***************************************************************************)
Seeds == {0, 25, 93}
Strides == {0, 1, 26}
Streams == [seed : Seeds, stride : Strides]

secrets_choice(seq, rng, i) == seq[((rng.seed + (i - 1) * rng.stride) % Len(seq)) + 1]

(***************************************************************************)
(* password_generator.py                                                   *)
(***************************************************************************)
get_character_set_fallback(use_upper, use_lower, use_digits, use_symbols) ==
    LET charset == (IF use_upper THEN ascii_uppercase ELSE <<>>)
                   \o (IF use_lower THEN ascii_lowercase ELSE <<>>)
                   \o (IF use_digits THEN digits ELSE <<>>)
                   \o (IF use_symbols THEN punctuation ELSE <<>>)
    IN  IF charset = <<>> THEN Return(ascii_lowercase) ELSE Return(charset)

get_character_set(use_upper, use_lower, use_digits, use_symbols) ==
    LET charset == (IF use_upper THEN ascii_uppercase ELSE <<>>)
                   \o (IF use_lower THEN ascii_lowercase ELSE <<>>)
                   \o (IF use_digits THEN digits ELSE <<>>)
                   \o (IF use_symbols THEN punctuation ELSE <<>>)
    IN  IF charset = <<>> THEN Raise(MsgNoClass) ELSE Return(charset)

\* the result of generate_password: the exception or the password, and the
\* number of characters drawn from the random source.  The draws of one call
\* are the stream's values number first, first + 1, ...
GenResult(raised, value, draws) == [raised |-> raised, value |-> value, draws |-> draws]

\* mutant: the character set is built before the length is looked at
generate_password_charset_first(length, use_upper, use_lower, use_digits, use_symbols, rng, first) ==
    LET cs == get_character_set(use_upper, use_lower, use_digits, use_symbols)
    IN  IF cs.raised # NoError THEN GenResult(cs.raised, <<>>, 0)
        ELSE IF length < 1 THEN GenResult(MsgLength, <<>>, 0)
        ELSE GenResult(NoError,
                       [i \in 1..length |-> secrets_choice(cs.value, rng, first + i - 1)],
                       length)

\* mutant: one character too few (range(length - 1))
generate_password_short(length, use_upper, use_lower, use_digits, use_symbols, rng, first) ==
    IF length < 1 THEN GenResult(MsgLength, <<>>, 0)
    ELSE LET cs == get_character_set(use_upper, use_lower, use_digits, use_symbols)
         IN  IF cs.raised # NoError THEN GenResult(cs.raised, <<>>, 0)
             ELSE GenResult(NoError,
                            [i \in 1..(length - 1) |-> secrets_choice(cs.value, rng, first + i - 1)],
                            length - 1)

generate_password(length, use_upper, use_lower, use_digits, use_symbols, rng, first) ==
    IF length < 1 THEN GenResult(MsgLength, <<>>, 0)
    ELSE LET cs == get_character_set(use_upper, use_lower, use_digits, use_symbols)
         IN  IF cs.raised # NoError THEN GenResult(cs.raised, <<>>, 0)
             ELSE GenResult(NoError,
                            [i \in 1..length |-> secrets_choice(cs.value, rng, first + i - 1)],
                            length)

(***************************************************************************)
(* evaluate_password_strength.  The feedback list holds the advisories in  *)
(* the order appended; " / ".join puts the separator between neighbours.   *)
(***************************************************************************)
AdvLen16 == "a longer password (16 or more characters) is recommended"
AdvLen12 == "a longer password (12 or more characters) is recommended"
AdvLen8 == "the password is too short (at least 8 characters recommended)"
AdvSymbols == "adding symbols makes it stronger"
AdvMoreClasses == "use more character classes"
AdvFewClasses == "too few character classes"
GoodPassword == "a good password"
Separator == " / "

LevelVeryStrong == "very strong"
LevelStrong == "strong"
LevelMedium == "medium"
LevelWeak == "weak"

RECURSIVE join(_, _)
join(sep, list) ==
    IF list = <<>> THEN <<>>
    ELSE IF Len(list) = 1 THEN list
    ELSE <<Head(list), sep>> \o join(sep, Tail(list))

has_upper(password) == \E i \in 1..Len(password) : isupper(password[i])
has_lower(password) == \E i \in 1..Len(password) : islower(password[i])
has_digit(password) == \E i \in 1..Len(password) : isdigit(password[i])
has_symbol(password) == \E i \in 1..Len(password) : password[i] \in punctuation_chars

Bit(b) == IF b THEN 1 ELSE 0

variety_count(upper, lower, digit, symbol) == Bit(upper) + Bit(lower) + Bit(digit) + Bit(symbol)

charset_size(upper, lower, digit, symbol) ==
    (IF upper THEN 26 ELSE 0) + (IF lower THEN 26 ELSE 0)
    + (IF digit THEN 10 ELSE 0) + (IF symbol THEN 32 ELSE 0)

\* math.log2(n) in millionths of a bit, rounded down, for the sizes
\* charset_size can take.  length * log2(n) >= T is decided on these exactly
\* as on the floating-point product for every length up to 200.
Log2Micro(n) ==
    CASE n = 10 -> 3321928 [] n = 26 -> 4700439 [] n = 32 -> 5000000
      [] n = 36 -> 5169925 [] n = 42 -> 5392317 [] n = 52 -> 5700439
      [] n = 58 -> 5857980 [] n = 62 -> 5954196 [] n = 68 -> 6087462
      [] n = 84 -> 6392317 [] n = 94 -> 6554588

\* mutant: the 12-character band starts one character late (length > 12)
length_score_late(length) ==
    IF length >= 16 THEN 40
    ELSE IF length > 12 THEN 30
    ELSE IF length >= 8 THEN 20
    ELSE 10

length_score(length) ==
    IF length >= 16 THEN 40
    ELSE IF length >= 12 THEN 30
    ELSE IF length >= 8 THEN 20
    ELSE 10

length_feedback(length) ==
    IF length >= 16 THEN <<>>
    ELSE IF length >= 12 THEN <<AdvLen16>>
    ELSE IF length >= 8 THEN <<AdvLen12>>
    ELSE <<AdvLen8>>

variety_score(count) ==
    IF count = 4 THEN 40
    ELSE IF count = 3 THEN 30
    ELSE IF count = 2 THEN 15
    ELSE 5

variety_feedback(count) ==
    IF count = 4 THEN <<>>
    ELSE IF count = 3 THEN <<AdvSymbols>>
    ELSE IF count = 2 THEN <<AdvMoreClasses>>
    ELSE <<AdvFewClasses>>

\* mutant: no guard on an empty character set, whose entropy counts as 0 bits
entropy_score_unguarded(length, size) ==
    LET entropy == IF size > 0 THEN length * Log2Micro(size) ELSE 0
    IN  IF entropy >= 80000000 THEN 20
        ELSE IF entropy >= 60000000 THEN 15
        ELSE IF entropy >= 40000000 THEN 10
        ELSE 5

entropy_score(length, size) ==
    IF size > 0
    THEN LET entropy == length * Log2Micro(size)
         IN  IF entropy >= 80000000 THEN 20
             ELSE IF entropy >= 60000000 THEN 15
             ELSE IF entropy >= 40000000 THEN 10
             ELSE 5
    ELSE 0

\* mutant: the top band starts above 80 (score > 80)
level_of_strict(score) ==
    IF score > 80 THEN LevelVeryStrong
    ELSE IF score >= 60 THEN LevelStrong
    ELSE IF score >= 40 THEN LevelMedium
    ELSE LevelWeak

level_of(score) ==
    IF score >= 80 THEN LevelVeryStrong
    ELSE IF score >= 60 THEN LevelStrong
    ELSE IF score >= 40 THEN LevelMedium
    ELSE LevelWeak

\* mutant: the feedback is joined even when no advisory was triggered
feedback_text_joined(feedback) == join(Separator, feedback)

feedback_text(feedback) == IF feedback # <<>> THEN join(Separator, feedback) ELSE <<GoodPassword>>

evaluate_password_strength(password) ==
    LET length == Len(password)
        upper == has_upper(password)
        lower == has_lower(password)
        digit == has_digit(password)
        symbol == has_symbol(password)
        count == variety_count(upper, lower, digit, symbol)
        size == charset_size(upper, lower, digit, symbol)
        score == length_score(length) + variety_score(count) + entropy_score(length, size)
        feedback == length_feedback(length) \o variety_feedback(count)
    IN  [level |-> level_of(score), score |-> score, feedback |-> feedback_text(feedback)]

(***************************************************************************)
(* State.                                                                  *)
(***************************************************************************)
VARIABLES
    \* a call of generate_password and what it returned
    gen_call, gen_ret,
    \* a call of evaluate_password_strength and what it returned
    password, strength,
    \* main(): the parsed arguments, the entropy of this run, where the run is,
    \* the loop index, the two output streams, the exit status, and the number
    \* of characters drawn so far
    args, cli_rng, pc, loop_i, stdout, stderr, exit_status, drawn,
    \* the form: the Tk variables of the slider and the four checkboxes, the
    \* slider's label, the password Text, the strength widgets, the copy
    \* button, the clipboard, the pending root.after callbacks (each the
    \* original_text its lambda captured), the number of copy handlers
    \* suspended inside root.update(), and the dialog the last handler raised
    length_var, length_label, upper_var, lower_var, digits_var, symbols_var,
    password_text, strength_progress, strength_label, feedback_label,
    copy_button, clipboard, after_queue, update_depth, messagebox

genVars == <<gen_call, gen_ret>>
evalVars == <<password, strength>>
cliVars == <<args, cli_rng, pc, loop_i, stdout, stderr, exit_status, drawn>>
settingVars == <<length_var, length_label, upper_var, lower_var, digits_var, symbols_var>>
displayVars == <<password_text, strength_progress, strength_label, feedback_label>>
copyVars == <<copy_button, clipboard, after_queue, update_depth>>
guiVars == <<settingVars, displayVars, copyVars, messagebox>>
vars == <<genVars, evalVars, cliVars, guiVars>>

Booleans == {TRUE, FALSE}

(***************************************************************************)
(* generate_password on its own: every call with a length in               *)
(* -1..MaxGenLength, a selection of classes and an entropy stream.         *)
(***************************************************************************)
GenLengths == -1..MaxGenLength

NoCall ==
    [called |-> FALSE, length |-> 0, use_upper |-> FALSE, use_lower |-> FALSE,
     use_digits |-> FALSE, use_symbols |-> FALSE, rng |-> [seed |-> 0, stride |-> 0]]

GenIdle == gen_call = NoCall /\ gen_ret = GenResult(NoError, <<>>, 0)

CallGenerate(length, use_upper, use_lower, use_digits, use_symbols, rng) ==
    /\ gen_call' = [called |-> TRUE, length |-> length, use_upper |-> use_upper,
                    use_lower |-> use_lower, use_digits |-> use_digits,
                    use_symbols |-> use_symbols, rng |-> rng]
    /\ gen_ret' = generate_password(length, use_upper, use_lower, use_digits, use_symbols, rng, 1)
    /\ UNCHANGED <<evalVars, cliVars, guiVars>>

(***************************************************************************)
(* evaluate_password_strength on its own: the password is typed one        *)
(* character at a time and evaluated after each.                           *)
(***************************************************************************)
\* "A" "a" "0" "!" " " and "e acute"
Alphabet == {65, 97, 48, 33, 32, 233}

EvalIdle == password = <<>> /\ strength = evaluate_password_strength(<<>>)

TypeCharacter(c) ==
    /\ Len(password) < MaxCore
    /\ password' = Append(password, c)
    /\ strength' = evaluate_password_strength(password')
    /\ UNCHANGED <<genVars, cliVars, guiVars>>

RepeatCharacter ==
    /\ password # <<>>
    /\ Len(password) < MaxLen
    /\ password' = Append(password, password[Len(password)])
    /\ strength' = evaluate_password_strength(password')
    /\ UNCHANGED <<genVars, cliVars, guiVars>>

(***************************************************************************)
(* main() of password_generator.py.  argparse has parsed the arguments      *)
(* (type=int, BooleanOptionalAction); the run then validates them, loops    *)
(* over range(count) and returns, or leaves through sys.exit(1).            *)
(***************************************************************************)
ErrMinLength == "error: the password length must be at least 4"
ErrMinCount == "error: the count must be at least 1"
ErrorLine(msg) == <<"error: ", msg>>

PasswordLine(index, text) == [line |-> "password", index |-> index, text |-> text]
StrengthLine(level, score) == [line |-> "strength", level |-> level, score |-> score]
FeedbackLine(text) == [line |-> "feedback", text |-> text]

NoArgs ==
    [length |-> 16, count |-> 1, upper |-> TRUE, lower |-> TRUE, digits |-> TRUE, symbols |-> TRUE]

CliIdle ==
    /\ args = NoArgs /\ cli_rng = [seed |-> 0, stride |-> 0]
    /\ pc = "not started" /\ loop_i = 0
    /\ stdout = <<>> /\ stderr = <<>> /\ exit_status = 0 /\ drawn = 0

CliLengths == -1..MaxCliLength
CliCounts == -1..MaxCount

CliStart ==
    /\ args \in [length : CliLengths, count : CliCounts, upper : Booleans,
                 lower : Booleans, digits : Booleans, symbols : Booleans]
    /\ cli_rng \in Streams
    /\ pc = "validate" /\ loop_i = 0
    /\ stdout = <<>> /\ stderr = <<>> /\ exit_status = 0 /\ drawn = 0

sys_exit(status, message) ==
    /\ stderr' = Append(stderr, message)
    /\ exit_status' = status
    /\ pc' = "exited"

\* mutant: only the generator's own floor of 1 is enforced
main_validate_floor_1 ==
    /\ pc = "validate"
    /\ IF args.length < 1
       THEN sys_exit(1, ErrMinLength)
       ELSE IF args.count < 1
       THEN sys_exit(1, ErrMinCount)
       ELSE pc' = "loop" /\ UNCHANGED <<stderr, exit_status>>
    /\ UNCHANGED <<args, cli_rng, loop_i, stdout, drawn>>
    /\ UNCHANGED <<genVars, evalVars, guiVars>>

main_validate ==
    /\ pc = "validate"
    /\ IF args.length < 4
       THEN sys_exit(1, ErrMinLength)
       ELSE IF args.count < 1
       THEN sys_exit(1, ErrMinCount)
       ELSE pc' = "loop" /\ UNCHANGED <<stderr, exit_status>>
    /\ UNCHANGED <<args, cli_rng, loop_i, stdout, drawn>>
    /\ UNCHANGED <<genVars, evalVars, guiVars>>

\* one pass of the loop body: generate, evaluate, print; a ValueError leaves
\* the loop for the except clause
main_iteration ==
    /\ pc = "loop" /\ loop_i < args.count
    /\ LET r == generate_password(args.length, args.upper, args.lower, args.digits,
                                  args.symbols, cli_rng, drawn + 1)
           e == evaluate_password_strength(r.value)
       IN  IF r.raised # NoError
           THEN /\ sys_exit(1, ErrorLine(r.raised))
                /\ UNCHANGED <<loop_i, stdout, drawn>>
           ELSE /\ stdout' = stdout \o <<PasswordLine(loop_i + 1, r.value),
                                        StrengthLine(e.level, e.score),
                                        FeedbackLine(e.feedback)>>
                /\ loop_i' = loop_i + 1
                /\ drawn' = drawn + r.draws
                /\ UNCHANGED <<stderr, exit_status, pc>>
    /\ UNCHANGED <<args, cli_rng>>
    /\ UNCHANGED <<genVars, evalVars, guiVars>>

\* range(count) is exhausted: main returns and the interpreter exits with 0
main_return ==
    /\ pc = "loop" /\ loop_i >= args.count
    /\ pc' = "exited"
    /\ UNCHANGED <<args, cli_rng, loop_i, stdout, stderr, exit_status, drawn>>
    /\ UNCHANGED <<genVars, evalVars, guiVars>>

(***************************************************************************)
(* password_generator_gui.py.  Every handler runs to its end on Tk's event  *)
(* loop.  copy_to_clipboard calls root.update(), which runs the event loop  *)
(* from inside the handler: the handlers of the events pending then run     *)
(* before copy_to_clipboard goes on, so it is modelled in two steps.        *)
(***************************************************************************)
CopyLabel == "copy to clipboard"
CopiedLabel == "copied!"
NORMAL == "normal"
DISABLED == "disabled"

StyleVeryStrong == "VeryStrong.Horizontal.TProgressbar"   \* green
StyleStrong == "Strong.Horizontal.TProgressbar"           \* yellow green
StyleMedium == "Medium.Horizontal.TProgressbar"           \* orange
StyleWeak == "Weak.Horizontal.TProgressbar"               \* red

NoDialog == [kind |-> "none", message |-> ""]
showerror(message) == [kind |-> "showerror", message |-> message]
showwarning(message) == [kind |-> "showwarning", message |-> message]
WarnNothingToCopy == "there is no password to copy"

\* ttk.Scale writes a float to its variable; the values here are in halves
\* (32 is 16.0, 17 is 8.5).  IntVar.get() and int(float(value)) both drop the
\* fraction.
IntVar_get(halves) == halves \div 2

\* Text.get(1.0, END): the content and the newline Tk keeps at the end
Text_get(content) == content \o <<10>>

isspace(c) == c \in {9, 10, 11, 12, 13, 28, 29, 30, 31, 32, 133, 160}

RECURSIVE lstrip(_)
lstrip(text) == IF text # <<>> /\ isspace(Head(text)) THEN lstrip(Tail(text)) ELSE text

RECURSIVE rstrip(_)
rstrip(text) ==
    IF text # <<>> /\ isspace(text[Len(text)]) THEN rstrip(SubSeq(text, 1, Len(text) - 1)) ELSE text

strip(text) == rstrip(lstrip(text))

\* mutant: the meter keeps the style the widget was created with
update_strength_display_no_recolor(level, score, feedback) ==
    [strength_progress |-> [value |-> score, style |-> StyleVeryStrong],
     strength_label |-> [level |-> level, score |-> score],
     feedback_label |-> feedback]

\* the widget values update_strength_display sets
update_strength_display(level, score, feedback) ==
    [strength_progress |->
        [value |-> score,
         style |-> IF score >= 80 THEN StyleVeryStrong
                   ELSE IF score >= 60 THEN StyleStrong
                   ELSE IF score >= 40 THEN StyleMedium
                   ELSE StyleWeak],
     strength_label |-> [level |-> level, score |-> score],
     feedback_label |-> feedback]

\* the try block of PasswordGeneratorGUI.generate_password: the exception, or
\* the new content of the password Text and of the strength widgets
generate_and_evaluate(length, use_upper, use_lower, use_digits, use_symbols, rng) ==
    LET r == generate_password(length, use_upper, use_lower, use_digits, use_symbols, rng, 1)
        e == evaluate_password_strength(r.value)
    IN  [raised |-> r.raised,
         password_text |-> r.value,
         display |-> update_strength_display(e.level, e.score, e.feedback)]

\* __init__: create_widgets, then generate_password() on the fresh widgets
GuiInit(streams) ==
    /\ length_var = 32 /\ length_label = 16
    /\ upper_var = TRUE /\ lower_var = TRUE /\ digits_var = TRUE /\ symbols_var = TRUE
    /\ \E rng \in streams :
          LET g == generate_and_evaluate(IntVar_get(32), TRUE, TRUE, TRUE, TRUE, rng)
          IN  /\ password_text = g.password_text
              /\ strength_progress = g.display.strength_progress
              /\ strength_label = g.display.strength_label
              /\ feedback_label = g.display.feedback_label
    /\ copy_button = [text |-> CopyLabel, state |-> NORMAL]
    /\ clipboard = <<>>
    /\ after_queue = <<>>
    /\ update_depth = 0
    /\ messagebox = NoDialog

GuiIdle == GuiInit({[seed |-> 0, stride |-> 0]})

\* the slider is moved: the variable takes the value, the command updates the label
update_length_label(value) ==
    /\ value # length_var
    /\ length_var' = value
    /\ length_label' = IntVar_get(value)
    /\ messagebox' = NoDialog
    /\ UNCHANGED <<upper_var, lower_var, digits_var, symbols_var, displayVars, copyVars>>
    /\ UNCHANGED <<genVars, evalVars, cliVars>>

toggle_upper ==
    /\ upper_var' = ~upper_var
    /\ messagebox' = NoDialog
    /\ UNCHANGED <<length_var, length_label, lower_var, digits_var, symbols_var, displayVars, copyVars>>
    /\ UNCHANGED <<genVars, evalVars, cliVars>>

toggle_lower ==
    /\ lower_var' = ~lower_var
    /\ messagebox' = NoDialog
    /\ UNCHANGED <<length_var, length_label, upper_var, digits_var, symbols_var, displayVars, copyVars>>
    /\ UNCHANGED <<genVars, evalVars, cliVars>>

toggle_digits ==
    /\ digits_var' = ~digits_var
    /\ messagebox' = NoDialog
    /\ UNCHANGED <<length_var, length_label, upper_var, lower_var, symbols_var, displayVars, copyVars>>
    /\ UNCHANGED <<genVars, evalVars, cliVars>>

toggle_symbols ==
    /\ symbols_var' = ~symbols_var
    /\ messagebox' = NoDialog
    /\ UNCHANGED <<length_var, length_label, upper_var, lower_var, digits_var, displayVars, copyVars>>
    /\ UNCHANGED <<genVars, evalVars, cliVars>>

\* the generate button (PasswordGeneratorGUI.generate_password)
gui_generate_password(rng) ==
    /\ LET g == generate_and_evaluate(IntVar_get(length_var), upper_var, lower_var,
                                      digits_var, symbols_var, rng)
       IN  IF g.raised = NoError
           THEN /\ password_text' = g.password_text
                /\ strength_progress' = g.display.strength_progress
                /\ strength_label' = g.display.strength_label
                /\ feedback_label' = g.display.feedback_label
                /\ messagebox' = NoDialog
           ELSE /\ messagebox' = showerror(g.raised)
                /\ UNCHANGED displayVars
    /\ UNCHANGED <<settingVars, copyVars>>
    /\ UNCHANGED <<genVars, evalVars, cliVars>>

\* the copy button, up to and into root.update().  A disabled ttk button
\* does not invoke its command.
copy_to_clipboard ==
    /\ copy_button.state = NORMAL
    /\ update_depth < MaxNest
    /\ update_depth + Len(after_queue) < MaxTimers
    /\ LET text == strip(Text_get(password_text))
       IN  IF text # <<>>
           THEN /\ clipboard' = text
                /\ update_depth' = update_depth + 1
                /\ messagebox' = NoDialog
           ELSE /\ messagebox' = showwarning(WarnNothingToCopy)
                /\ UNCHANGED <<clipboard, update_depth>>
    /\ UNCHANGED <<copy_button, after_queue, settingVars, displayVars>>
    /\ UNCHANGED <<genVars, evalVars, cliVars>>

\* root.update() returns to the innermost suspended copy_to_clipboard, which
\* reads the button's text, shows the confirmation and schedules the restore
copy_to_clipboard_after_update ==
    /\ update_depth > 0
    /\ LET original_text == copy_button.text
       IN  /\ copy_button' = [text |-> CopiedLabel, state |-> DISABLED]
           /\ after_queue' = Append(after_queue, original_text)
    /\ update_depth' = update_depth - 1
    /\ UNCHANGED <<clipboard, messagebox, settingVars, displayVars>>
    /\ UNCHANGED <<genVars, evalVars, cliVars>>

\* 1.5 s after it was scheduled the oldest pending lambda runs
restore_copy_button ==
    /\ after_queue # <<>>
    /\ copy_button' = [text |-> Head(after_queue), state |-> NORMAL]
    /\ after_queue' = Tail(after_queue)
    /\ UNCHANGED <<clipboard, update_depth, messagebox, settingVars, displayVars>>
    /\ UNCHANGED <<genVars, evalVars, cliVars>>

(***************************************************************************)
(* Specifications.                                                         *)
(***************************************************************************)
InitGen == GenIdle /\ EvalIdle /\ CliIdle /\ GuiIdle

NextGen ==
    \E length \in GenLengths, use_upper \in Booleans, use_lower \in Booleans,
       use_digits \in Booleans, use_symbols \in Booleans, rng \in Streams :
        CallGenerate(length, use_upper, use_lower, use_digits, use_symbols, rng)

SpecGen == InitGen /\ [][NextGen]_vars

InitEval == GenIdle /\ EvalIdle /\ CliIdle /\ GuiIdle

NextEval ==
    \/ \E c \in Alphabet : TypeCharacter(c)
    \/ RepeatCharacter

SpecEval == InitEval /\ [][NextEval]_vars

InitCli == GenIdle /\ EvalIdle /\ CliStart /\ GuiIdle

NextCli ==
    \/ main_validate
    \/ main_iteration
    \/ main_return

SpecCli == InitCli /\ [][NextCli]_vars

\* the form's settings and its generate button, over every entropy stream
\* and the slider at 4.0, 8.5, 16.0 and 32.0
SliderStops == {8, 17, 32, 64}

InitDisplay == GenIdle /\ EvalIdle /\ CliIdle /\ GuiInit(Streams)

NextDisplay ==
    \/ \E value \in SliderStops : update_length_label(value)
    \/ toggle_upper
    \/ toggle_lower
    \/ toggle_digits
    \/ toggle_symbols
    \/ \E rng \in Streams : gui_generate_password(rng)

SpecDisplay == InitDisplay /\ [][NextDisplay]_vars

\* the whole form, over one entropy stream and the slider at 16.0 and 16.5
FormStreams == {[seed |-> 0, stride |-> 26]}
FormSliderStops == {32, 33}

Init == GenIdle /\ EvalIdle /\ CliIdle /\ GuiInit(FormStreams)

Next ==
    \/ \E value \in FormSliderStops : update_length_label(value)
    \/ toggle_upper
    \/ toggle_lower
    \/ toggle_digits
    \/ toggle_symbols
    \/ \E rng \in FormStreams : gui_generate_password(rng)
    \/ copy_to_clipboard
    \/ copy_to_clipboard_after_update
    \/ restore_copy_button

Spec == Init /\ [][Next]_vars

(***************************************************************************)
(* Claims about generate_password (under SpecGen).                         *)
(***************************************************************************)
\* the characters of the selected classes: A-Z, a-z, 0-9 and the 32 symbols
ClassChars(use_upper, use_lower, use_digits, use_symbols) ==
    (IF use_upper THEN 65..90 ELSE {}) \cup (IF use_lower THEN 97..122 ELSE {})
    \cup (IF use_digits THEN 48..57 ELSE {})
    \cup (IF use_symbols THEN (33..47) \cup (58..64) \cup (91..96) \cup (123..126) ELSE {})

AnySelected(c) == c.use_upper \/ c.use_lower \/ c.use_digits \/ c.use_symbols

\* C1: with at least one class selected and length >= 1, generate_password
\* returns exactly `length` characters, every one of a selected class.
C1_LengthAndCharset ==
    (gen_call.called /\ AnySelected(gen_call) /\ gen_call.length >= 1) =>
        /\ gen_ret.raised = NoError
        /\ Len(gen_ret.value) = gen_call.length
        /\ \A k \in 1..Len(gen_ret.value) :
              gen_ret.value[k] \in ClassChars(gen_call.use_upper, gen_call.use_lower,
                                              gen_call.use_digits, gen_call.use_symbols)

\* a password of MaxGenLength characters drawn from upper case and digits only,
\* holding both
C1_Witness ==
    /\ gen_call.called /\ gen_call.length >= 2
    /\ gen_call.use_upper /\ ~gen_call.use_lower /\ gen_call.use_digits /\ ~gen_call.use_symbols
    /\ gen_ret.raised = NoError
    /\ has_upper(gen_ret.value) /\ has_digit(gen_ret.value)

\* C2 as claimed: with no class selected generate_password raises the
\* "select at least one character class" error for every length, 0 and
\* negative lengths included.
C2_AsClaimed ==
    (gen_call.called /\ ~AnySelected(gen_call)) => gen_ret.raised = MsgNoClass

\* C2 as amended: with no class selected generate_password never returns a
\* password; it raises the "select at least one character class" error when
\* length >= 1 and the "length must be at least 1" error when length < 1.
C2_NoClassAlwaysFails ==
    (gen_call.called /\ ~AnySelected(gen_call)) =>
        /\ gen_ret.raised # NoError
        /\ gen_ret.value = <<>>
        /\ gen_call.length >= 1 => gen_ret.raised = MsgNoClass
        /\ gen_call.length < 1 => gen_ret.raised = MsgLength

C2_Witness ==
    /\ gen_call.called /\ ~AnySelected(gen_call) /\ gen_call.length >= 1
    /\ gen_ret.raised = MsgNoClass

\* C3: with length 0 or negative generate_password raises the "length must be
\* at least 1" error whatever the selection, having drawn no character.
C3_InvalidLengthFirst ==
    (gen_call.called /\ gen_call.length < 1) =>
        /\ gen_ret.raised = MsgLength
        /\ gen_ret.draws = 0
        /\ gen_ret.value = <<>>

C3_Witness ==
    /\ gen_call.called /\ gen_call.length = 0 /\ ~AnySelected(gen_call)
    /\ gen_ret.raised = MsgLength

(***************************************************************************)
(* Claims about evaluate_password_strength (under SpecEval).               *)
(***************************************************************************)
ClassesOf(p) == <<has_upper(p), has_lower(p), has_digit(p), has_symbol(p)>>

\* another character of the same class (or of none)
OtherChar(c) ==
    CASE c = 65 -> 90 [] c = 97 -> 122 [] c = 48 -> 57 [] c = 33 -> 126
      [] c = 32 -> 12354 [] c = 233 -> 122 [] OTHER -> c
Other(p) == [k \in 1..Len(p) |-> OtherChar(p[k])]

\* C4: the score is an integer in 0..100, the sum of the length, variety and
\* entropy components, and the level is decided by the score alone:
\* very strong iff >= 80, strong iff 60..79, medium iff 40..59, weak iff < 40.
C4_ScoreAndLevel ==
    LET u == has_upper(password)
        l == has_lower(password)
        d == has_digit(password)
        s == has_symbol(password)
    IN  /\ strength.score \in 0..100
        /\ strength.score = length_score(Len(password))
                            + variety_score(variety_count(u, l, d, s))
                            + entropy_score(Len(password), charset_size(u, l, d, s))
        /\ strength.level = LevelVeryStrong <=> strength.score >= 80
        /\ strength.level = LevelStrong <=> (60 <= strength.score /\ strength.score < 80)
        /\ strength.level = LevelMedium <=> (40 <= strength.score /\ strength.score < 60)
        /\ strength.level = LevelWeak <=> strength.score < 40

\* a password scored exactly 80, the lowest very strong score
C4_Witness == password # <<>> /\ strength.score = 80 /\ strength.level = LevelVeryStrong

\* C5: of two passwords holding the same classes the longer never scores
\* lower, and the length component is 10, 20, 30, 40 below 8, from 8, from 12
\* and from 16 characters.  The password of each state is compared with itself
\* less its last character, and with its twins (other characters of the same
\* classes) of the same and of the shorter length.
C5_LongerNeverScoresLower ==
    LET n == Len(password)
        shorter == SubSeq(password, 1, n - 1)
    IN  /\ length_score(n) = (IF n < 8 THEN 10 ELSE IF n < 12 THEN 20 ELSE IF n < 16 THEN 30 ELSE 40)
        /\ evaluate_password_strength(Other(password)).score = strength.score
        /\ (n > 0 /\ ClassesOf(shorter) = ClassesOf(password)) =>
              /\ evaluate_password_strength(shorter).score <= strength.score
              /\ evaluate_password_strength(Other(shorter)).score <= strength.score

\* the twelfth character, which adds no class, raises the score
C5_Witness ==
    /\ Len(password) = 12
    /\ ClassesOf(SubSeq(password, 1, 11)) = ClassesOf(password)
    /\ evaluate_password_strength(SubSeq(password, 1, 11)).score < strength.score

\* C6: 16 characters with an uppercase letter, a lowercase letter, a digit and
\* a symbol score 40 + 40 + 20 = 100, very strong, and the feedback is the
\* single "good password" message.
C6_FullScore ==
    (/\ Len(password) = 16
     /\ has_upper(password) /\ has_lower(password) /\ has_digit(password) /\ has_symbol(password)) =>
        /\ strength.score = 100
        /\ length_score(16) = 40 /\ variety_score(4) = 40 /\ entropy_score(16, 94) = 20
        /\ strength.level = LevelVeryStrong
        /\ strength.feedback = <<GoodPassword>>

C6_Witness ==
    /\ Len(password) = 16
    /\ has_upper(password) /\ has_lower(password) /\ has_digit(password) /\ has_symbol(password)
    /\ strength.score = 100

\* C7: the empty string and every password under 8 characters holding no
\* character of the four classes score 10 + 5 + 0 = 15, weak: the lowest
\* length and variety bands, and no entropy component for a character set of
\* size 0.
C7_NoClassShort ==
    (/\ Len(password) < 8
     /\ ~has_upper(password) /\ ~has_lower(password) /\ ~has_digit(password) /\ ~has_symbol(password)) =>
        /\ strength.score = 15
        /\ length_score(Len(password)) = 10
        /\ variety_score(0) = 5
        /\ entropy_score(Len(password), charset_size(FALSE, FALSE, FALSE, FALSE)) = 0
        /\ strength.level = LevelWeak
        /\ strength.feedback = <<AdvLen8, Separator, AdvFewClasses>>

\* seven characters, none of a class
C7_Witness ==
    /\ Len(password) = 7
    /\ ~has_upper(password) /\ ~has_lower(password) /\ ~has_digit(password) /\ ~has_symbol(password)
    /\ strength.score = 15

(***************************************************************************)
(* Claims about main() (under SpecCli).                                    *)
(***************************************************************************)
ArgsSelected == args.upper \/ args.lower \/ args.digits \/ args.symbols

\* C8: with length < 4 or count < 1 the run ends with a non-zero status and an
\* error on the error stream, having generated and printed nothing; with no
\* class selected and valid numbers it ends with a non-zero status and prints
\* no password; otherwise it prints exactly count passwords of the requested
\* length, each followed by its own level, score and feedback.
C8_CommandLine ==
    /\ (args.length < 4 \/ args.count < 1) =>
          /\ stdout = <<>> /\ drawn = 0
          /\ pc = "exited" => (exit_status = 1 /\ Len(stderr) = 1)
    /\ (args.length >= 4 /\ args.count >= 1 /\ ~ArgsSelected) =>
          /\ stdout = <<>>
          /\ pc = "exited" => (exit_status # 0 /\ stderr = <<ErrorLine(MsgNoClass)>>)
    /\ (args.length >= 4 /\ args.count >= 1 /\ ArgsSelected /\ pc = "exited") =>
          /\ exit_status = 0 /\ stderr = <<>>
          /\ Len(stdout) = 3 * args.count
          /\ \A k \in 1..args.count :
                LET printed == stdout[3 * k - 2]
                    e == evaluate_password_strength(printed.text)
                IN  /\ printed.line = "password" /\ printed.index = k
                    /\ Len(printed.text) = args.length
                    /\ stdout[3 * k - 1] = StrengthLine(e.level, e.score)
                    /\ stdout[3 * k] = FeedbackLine(e.feedback)

\* a run that printed two or more passwords, not all of them the same
C8_Witness ==
    /\ pc = "exited" /\ exit_status = 0
    /\ args.count >= 2 /\ Len(stdout) = 3 * args.count
    /\ stdout[1].text # stdout[4].text


(***************************************************************************)
(* Claims about the form.                                                  *)
(***************************************************************************)
\* C9 as claimed (under Spec): the confirmation label is never captured as the
\* label to restore, and once no copy handler is running and no restore is
\* pending the copy button is back to its original label, enabled.
C9_CopyButtonRestored ==
    /\ \A k \in 1..Len(after_queue) : after_queue[k] = CopyLabel
    /\ (update_depth = 0 /\ after_queue = <<>>) =>
          copy_button = [text |-> CopyLabel, state |-> NORMAL]

\* the strength widgets show evaluate_password_strength of the displayed
\* password, the meter coloured by its score band
C10_DisplayMatches ==
    LET e == evaluate_password_strength(password_text)
    IN  /\ strength_label = [level |-> e.level, score |-> e.score]
        /\ feedback_label = e.feedback
        /\ strength_progress.value = e.score
        /\ strength_progress.style =
              (IF e.score >= 80 THEN StyleVeryStrong
               ELSE IF e.score >= 60 THEN StyleStrong
               ELSE IF e.score >= 40 THEN StyleMedium
               ELSE StyleWeak)

\* a step in which the form raised the "select at least one class" error
\* changed neither the displayed password nor the strength widgets; the form
\* raises no other dialog, and raises this one only with no class selected;
\* and no step taken with no class selected changes them
C10_FailedGenerateKeepsDisplay ==
    /\ messagebox' = showerror(MsgNoClass) => UNCHANGED displayVars
    /\ (messagebox' # NoDialog) =>
          (~upper_var /\ ~lower_var /\ ~digits_var /\ ~symbols_var
           /\ messagebox' = showerror(MsgNoClass))
    /\ (~upper_var /\ ~lower_var /\ ~digits_var /\ ~symbols_var) => UNCHANGED displayVars

\* C10 (under SpecDisplay): after start-up and any sequence of length changes,
\* class toggles and generate actions the displayed level, score, feedback and
\* meter colour are those of the displayed password; a generate that fails for
\* want of a class leaves the password and the strength display unchanged.
C10_StrengthDisplay == []C10_DisplayMatches /\ [][C10_FailedGenerateKeepsDisplay]_vars

\* a generate has failed with no class selected, on a display that shows a
\* medium password of 8 characters
C10_Witness ==
    /\ messagebox = showerror(MsgNoClass)
    /\ Len(password_text) = 8
    /\ strength_progress.style = StyleMedium

=============================================================================
